---- MODULE Spec2Model ----
(***************************************************************************)
(* Model of the gh-stars-sink catalog: the D1 schema of                   *)
(* migrations/0000_initial.sql (tables, constraints, foreign keys and     *)
(* triggers) driven by single SQL statements, and the worker of           *)
(* src/index.ts (queue consumer, /search route).                          *)
(*                                                                         *)
(* Every action is one SQL statement executed in autocommit mode: the     *)
(* statement, its constraint checks, its foreign-key actions and every    *)
(* trigger it fires either commit together or abort together (ABORT is    *)
(* the default conflict policy, so a failing trigger undoes the whole     *)
(* statement).  `last` records the statement and its outcome.             *)
(*                                                                         *)
(* repo_fts is declared `USING fts5(..., content='')`: a contentless FTS5 *)
(* table without contentless_delete.  Such a table keeps only the         *)
(* full-text index of the documents handed to it: it raises               *)
(* "cannot UPDATE contentless fts5 table" / "cannot DELETE from           *)
(* contentless fts5 table" for every row an UPDATE or DELETE selects, and *)
(* it has no rowid uniqueness check, so INSERT and INSERT OR IGNORE with  *)
(* a rowid that is already indexed add a further document under that      *)
(* rowid.  The model keeps, per rowid, the documents indexed under it.    *)
(***************************************************************************)
EXTENDS Integers, Sequences, FiniteSets, TLC

VARIABLES
  repos,         \* repos table: id -> row
  stars,         \* stars table: set of rows [repo_id, starred_at]
  embeddings,    \* embeddings table: id -> row
  repo_ai,       \* repo_ai table: repo_id -> row
  repo_fts,      \* repo_fts index: rowid -> documents indexed under it
  ai_tags,       \* ai_tags table: id -> tag_name
  tag_seq,       \* sqlite_sequence entry of ai_tags (AUTOINCREMENT)
  repo_ai_tags,  \* repo_ai_tags table: <<repo_id, tag_id>> -> number of rows
  sync_jobs,     \* sync_jobs table: id -> row
  now,           \* the clock read by strftime('now')
  console,       \* lines written by console.log
  delivered,     \* the batch the queue consumer handled last
  TERMS,         \* the TERMS KV namespace: key -> value
  response,      \* the response to the last request
  frames,        \* the trigger programs of the running UPDATE, outermost first
  last           \* the last statement or call and its outcome

vars == <<repos, stars, embeddings, repo_ai, repo_fts, ai_tags, tag_seq,
          repo_ai_tags, sync_jobs, now, console, delivered, TERMS, response,
          frames, last>>

catalog == <<repos, stars, embeddings, repo_ai, repo_fts, ai_tags, tag_seq,
             repo_ai_tags>>

-----------------------------------------------------------------------------
(* Bounds and value sets *)

MaxTime == 2                 \* the clock runs over 0..MaxTime
MaxChunk == 1                \* chunk indexes 0..MaxChunk
MaxBatch == 1                \* messages in one queue batch
MaxLog == 2                  \* console lines kept
MaxTags == 2                 \* ids the AUTOINCREMENT of ai_tags hands out
MaxQuery == 3                \* characters in a query string
MaxTriggerDepth == 3          \* trigger programs one statement may nest (SQLite: 1000)

NULL == "NULL"               \* SQL NULL in a TEXT column
NoValue == <<>>              \* SQL NULL in a numeric column; <<n>> holds the number n
NoName == <<>>               \* SQL NULL where a full name is expected
NoResponse == [status |-> 0, results |-> <<>>]   \* no request was answered yet

RepoIds == {1, 2}
Times == 0..MaxTime

\* full names as sequences of ASCII codes: "a/b", "A/B", "c/d"
Names == {<<97, 47, 98>>, <<65, 47, 66>>, <<99, 47, 100>>}
Descs == {NULL, "x"}
TopicsInputs == {NULL, "[]", "{bad"}
Langs == {NULL, "ts"}
Summaries == {"s", "t"}
StarTimes == {"s1", "s2"}
JobIds == {"j1"}
EmbIds == {"e1", "e2"}
Hashes == {"h1", "h2"}
\* tag names as sequences of ASCII codes: "Rust", "rust", "go"
TagNames == {<<82, 117, 115, 116>>, <<114, 117, 115, 116>>, <<103, 111>>}

-----------------------------------------------------------------------------
(* SQL functions *)

\* lower(): folds the ASCII letters A-Z only
Lower(s) == [i \in DOMAIN s |-> IF s[i] \in 65..90 THEN s[i] + 32 ELSE s[i]]

\* json_valid() on the sample texts: "[]" is well-formed JSON, "{bad" is not
json_valid(t) == IF t \in {"[]"} THEN 1 ELSE 0

-----------------------------------------------------------------------------
(* Table helpers *)

Put(tbl, k, row) == [i \in DOMAIN tbl \cup {k} |-> IF i = k THEN row ELSE tbl[i]]
Drop(tbl, k) == [i \in DOMAIN tbl \ {k} |-> tbl[i]]

\* SELECT * FROM stars WHERE repo_id = r
StarsOf(st, r) == {x \in st : x.repo_id = r}

\* cols is the SET list of an UPDATE or the arguments of a call, {} for any other
\* statement
Stmt(op, id, cols, res) == [op |-> op, id |-> id, cols |-> cols, res |-> res]

-----------------------------------------------------------------------------
(* repo_fts: contentless FTS5 table *)

Doc(fn, d, t, ai) == [full_name |-> fn, description |-> d, topics |-> t, ai_description |-> ai]

\* scalar subqueries of the triggers; a subquery without a row yields NULL
RepoName(rs, id) == IF id \in DOMAIN rs THEN rs[id].full_name ELSE NoName
RepoDesc(rs, id) == IF id \in DOMAIN rs THEN rs[id].description ELSE NULL
RepoTopics(rs, id) == IF id \in DOMAIN rs THEN rs[id].topics_json ELSE NULL
AiOf(ai, id) == IF id \in DOMAIN ai THEN ai[id].ai_description ELSE NULL

\* INSERT [OR IGNORE] INTO repo_fts(rowid, ...): indexes one more document
FtsInsert(fts, rowid, doc) == [fts EXCEPT ![rowid] = Append(@, doc)]

\* UPDATE repo_fts ... WHERE rowid = x / DELETE FROM repo_fts WHERE rowid = x:
\* an error for every selected row, nothing to do when no row is selected
FtsRowExists(fts, rowid) == fts[rowid] # <<>>
FtsUpdateFails(fts, rowid) == FtsRowExists(fts, rowid)
FtsDeleteFails(fts, rowid) == FtsRowExists(fts, rowid)

\* the values searchable under a rowid in one column (NULL indexes nothing)
Indexed(fts, rowid, col) ==
  {fts[rowid][i][col] : i \in DOMAIN fts[rowid]} \ {IF col = "full_name" THEN NoName ELSE NULL}

-----------------------------------------------------------------------------
(* Triggers on repos *)

\* variant: the WHEN clause compares json_valid(NEW.topics_json) with 1
topics_json_rejected_valid(t) == t # NULL /\ json_valid(t) = 1

\* tr_repos_topics_json_ins / tr_repos_topics_json_upd: the WHEN clause
topics_json_rejected(t) == t # NULL /\ json_valid(t) = 0

\* variant: the index is on full_name instead of lower(full_name)
NameTakenExact(rs, id, fn) == \E o \in DOMAIN rs \ {id} : rs[o].full_name = fn

\* ux_repos_full_name_nocase: another row already holds lower(full_name)
NameTaken(rs, id, fn) == \E o \in DOMAIN rs \ {id} : Lower(rs[o].full_name) = Lower(fn)

\* variant: the trigger is missing
tr_repos_touch_none(row, t) == row

\* tr_repos_touch_last_synced: the nested UPDATE names last_synced_at only, so it
\* fires no trigger `OF full_name, description, topics_json`, and with
\* recursive_triggers off it does not fire the touch trigger again
tr_repos_touch_last_synced(row, t) == [row EXCEPT !.last_synced_at = t]

\* variant: the nested UPDATE has no WHERE clause
tr_repos_touch_every_row(rs, id, t) ==
  [i \in DOMAIN rs |-> tr_repos_touch_last_synced(rs[i], t)]

\* the rows the nested UPDATE of tr_repos_touch_last_synced writes: WHERE id = NEW.id
tr_repos_touch_rows(rs, id, t) == [rs EXCEPT ![id] = tr_repos_touch_last_synced(@, t)]

\* tr_repos_to_fts_ins
tr_repos_to_fts_ins(fts, ai, id, row) ==
  FtsInsert(fts, id, Doc(row.full_name, row.description, row.topics_json, AiOf(ai, id)))

\* tr_repos_to_fts_upd fires when the SET list names one of its columns
MirroredCols == {"full_name", "description", "topics_json"}
tr_repos_to_fts_upd_fires(cols) == cols \cap MirroredCols # {}
tr_repos_to_fts_upd_fails(fts, id) == FtsUpdateFails(fts, id)

\* variant: the trigger is missing
tr_repos_to_fts_del_missing(fts, id) == FALSE

\* tr_repos_to_fts_del
tr_repos_to_fts_del_fails(fts, id) == FtsDeleteFails(fts, id)

-----------------------------------------------------------------------------
(* Triggers on repo_ai *)

\* variant: the trigger leaves the index alone
tr_repos_ai_ins_skip(fts, rs, id, a) == fts

\* tr_repos_ai_ins
tr_repos_ai_ins(fts, rs, id, a) ==
  FtsInsert(fts, id, Doc(RepoName(rs, id), RepoDesc(rs, id), RepoTopics(rs, id), a))

\* tr_repos_ai_upd
tr_repos_ai_upd_fails(fts, id) == FtsUpdateFails(fts, id)

\* tr_repos_ai_del
tr_repos_ai_del_fails(fts, id) == FtsDeleteFails(fts, id)

-----------------------------------------------------------------------------
(* Statements on repos *)

RepoCols == {"full_name", "description", "topics_json", "language"}

RepoRow(fn, d, t, l, at) ==
  [full_name |-> fn, description |-> d, topics_json |-> t, language |-> l,
   last_synced_at |-> at]

\* INSERT INTO repos (id, full_name, description, topics_json, language, ...)
InsertRepoResult(r, fn, t) ==
  IF topics_json_rejected(t) THEN "abort_json"
  ELSE IF r \in DOMAIN repos THEN "constraint_pk"
  ELSE IF NameTaken(repos, r, fn) THEN "constraint_unique"
  ELSE "ok"

InsertRepo(r, fn, d, t, l) ==
  LET res == InsertRepoResult(r, fn, t)
      row == RepoRow(fn, d, t, l, now)
  IN /\ last' = Stmt("InsertRepo", r, {}, res)
     /\ IF res = "ok"
        THEN /\ repos' = Put(repos, r, row)
             /\ repo_fts' = tr_repos_to_fts_ins(repo_fts, repo_ai, r, row)
        ELSE UNCHANGED <<repos, repo_fts>>
     /\ UNCHANGED <<stars, embeddings, repo_ai, ai_tags, tag_seq, repo_ai_tags,
                    sync_jobs, now, console, delivered,
                    TERMS, response, frames>>

\* UPDATE repos SET <cols> = <v> WHERE id = r
UpdatedRow(old, cols, v) ==
  [c \in DOMAIN old |-> IF c \in cols THEN v[c] ELSE old[c]]

UpdateRepoResult(r, cols, v) ==
  IF r \notin DOMAIN repos THEN "no_row"
  ELSE IF "topics_json" \in cols /\ topics_json_rejected(v.topics_json) THEN "abort_json"
  ELSE IF "full_name" \in cols /\ NameTaken(repos, r, v.full_name) THEN "constraint_unique"
  ELSE IF tr_repos_to_fts_upd_fires(cols) /\ tr_repos_to_fts_upd_fails(repo_fts, r)
       THEN "error_fts"
  ELSE "ok"

UpdateRepo(r, cols, v) ==
  LET res == UpdateRepoResult(r, cols, v)
  IN /\ last' = Stmt("UpdateRepo", r, cols, res)
     /\ IF res = "ok"
        THEN repos' = tr_repos_touch_rows([repos EXCEPT ![r] = UpdatedRow(@, cols, v)],
                                          r, now)
        ELSE UNCHANGED repos
     /\ UNCHANGED <<stars, embeddings, repo_ai, repo_fts, ai_tags, tag_seq,
                    repo_ai_tags, sync_jobs, now, console, delivered,
                    TERMS, response, frames>>

\* DELETE FROM repos WHERE id = r: ON DELETE CASCADE removes the rows of stars,
\* embeddings, repo_ai (firing tr_repos_ai_del) and repo_ai_tags, then
\* tr_repos_to_fts_del fires
DeleteRepoResult(r) ==
  IF r \notin DOMAIN repos THEN "no_row"
  ELSE IF r \in DOMAIN repo_ai /\ tr_repos_ai_del_fails(repo_fts, r) THEN "error_fts"
  ELSE IF tr_repos_to_fts_del_fails(repo_fts, r) THEN "error_fts"
  ELSE "ok"

DeleteRepo(r) ==
  LET res == DeleteRepoResult(r)
  IN /\ last' = Stmt("DeleteRepo", r, {}, res)
     /\ IF res = "ok"
        THEN /\ repos' = Drop(repos, r)
             /\ stars' = stars \ StarsOf(stars, r)
             /\ embeddings' = [e \in {x \in DOMAIN embeddings : embeddings[x].repo_id # r}
                                 |-> embeddings[e]]
             /\ repo_ai' = Drop(repo_ai, r)
             /\ repo_ai_tags' = [p \in {x \in DOMAIN repo_ai_tags : x[1] # r}
                                   |-> repo_ai_tags[p]]
        ELSE UNCHANGED <<repos, stars, embeddings, repo_ai, repo_ai_tags>>
     /\ UNCHANGED <<repo_fts, ai_tags, tag_seq, sync_jobs, now, console, delivered,
                    TERMS, response, frames>>

-----------------------------------------------------------------------------
(* Statements on repo_ai *)

AiRow(a, at) == [ai_description |-> a, last_indexed_at |-> at]

\* INSERT INTO repo_ai (repo_id, ai_description)
InsertAnnotationResult(r) ==
  IF r \in DOMAIN repo_ai THEN "constraint_pk"
  ELSE IF r \notin DOMAIN repos THEN "constraint_fk"
  ELSE "ok"

InsertAnnotation(r, a) ==
  LET res == InsertAnnotationResult(r)
  IN /\ last' = Stmt("InsertAnnotation", r, {}, res)
     /\ IF res = "ok"
        THEN /\ repo_ai' = Put(repo_ai, r, AiRow(a, now))
             /\ repo_fts' = tr_repos_ai_ins(repo_fts, repos, r, a)
        ELSE UNCHANGED <<repo_ai, repo_fts>>
     /\ UNCHANGED <<repos, stars, embeddings, ai_tags, tag_seq, repo_ai_tags,
                    sync_jobs, now, console, delivered,
                    TERMS, response, frames>>

\* UPDATE repo_ai SET ai_description = a WHERE repo_id = r
UpdateAnnotationResult(r) ==
  IF r \notin DOMAIN repo_ai THEN "no_row"
  ELSE IF tr_repos_ai_upd_fails(repo_fts, r) THEN "error_fts"
  ELSE "ok"

UpdateAnnotation(r, a) ==
  LET res == UpdateAnnotationResult(r)
  IN /\ last' = Stmt("UpdateAnnotation", r, {}, res)
     /\ IF res = "ok"
        THEN repo_ai' = [repo_ai EXCEPT ![r].ai_description = a]
        ELSE UNCHANGED repo_ai
     /\ UNCHANGED <<repos, stars, embeddings, repo_fts, ai_tags, tag_seq,
                    repo_ai_tags, sync_jobs, now, console, delivered,
                    TERMS, response, frames>>

\* DELETE FROM repo_ai WHERE repo_id = r
DeleteAnnotationResult(r) ==
  IF r \notin DOMAIN repo_ai THEN "no_row"
  ELSE IF tr_repos_ai_del_fails(repo_fts, r) THEN "error_fts"
  ELSE "ok"

DeleteAnnotation(r) ==
  LET res == DeleteAnnotationResult(r)
  IN /\ last' = Stmt("DeleteAnnotation", r, {}, res)
     /\ IF res = "ok"
        THEN repo_ai' = Drop(repo_ai, r)
        ELSE UNCHANGED repo_ai
     /\ UNCHANGED <<repos, stars, embeddings, repo_fts, ai_tags, tag_seq,
                    repo_ai_tags, sync_jobs, now, console, delivered,
                    TERMS, response, frames>>

-----------------------------------------------------------------------------
(* Specification of the catalog *)

Init ==
  /\ repos = <<>>
  /\ stars = {}
  /\ embeddings = <<>>
  /\ repo_ai = <<>>
  /\ repo_fts = [r \in RepoIds |-> <<>>]
  /\ ai_tags = <<>>
  /\ tag_seq = 0
  /\ repo_ai_tags = <<>>
  /\ sync_jobs = <<>>
  /\ now = 0
  /\ console = <<>>
  /\ delivered = <<>>
  /\ TERMS = <<>>
  /\ response = NoResponse
  /\ frames = <<>>
  /\ last = Stmt("none", 0, {}, "ok")

\* the catalog specification leaves language at its default, NULL
RepoInputs ==
  [full_name : Names, description : Descs, topics_json : TopicsInputs, language : {NULL}]

\* the SET lists the model issues: each column alone, and all of them
SetLists == {{c} : c \in RepoCols} \cup {RepoCols}

DefaultInput ==
  [full_name |-> <<97, 47, 98>>, description |-> NULL, topics_json |-> NULL,
   language |-> NULL]

SetInputs(cols) == {v \in RepoInputs : \A c \in RepoCols \ cols : v[c] = DefaultInput[c]}

Next ==
  \/ \E r \in RepoIds, v \in RepoInputs :
       InsertRepo(r, v.full_name, v.description, v.topics_json, v.language)
  \/ \E r \in RepoIds, cols \in SetLists : \E v \in SetInputs(cols) : UpdateRepo(r, cols, v)
  \/ \E r \in RepoIds : DeleteRepo(r)
  \/ \E r \in RepoIds, a \in Summaries : InsertAnnotation(r, a)
  \/ \E r \in RepoIds, a \in Summaries : UpdateAnnotation(r, a)
  \/ \E r \in RepoIds : DeleteAnnotation(r)

Spec == Init /\ [][Next]_vars

-----------------------------------------------------------------------------
(* Specification of the repos table under a running clock *)

TouchInputs(cols) ==
  {v \in [full_name : Names, description : Descs, topics_json : TopicsInputs,
          language : Langs] :
     \A c \in RepoCols \ cols : v[c] = DefaultInput[c]}

\* the SET lists of this specification: each column alone, and topics_json with
\* language
TouchLists == {{c} : c \in RepoCols} \cup {{"topics_json", "language"}}

\* strftime('now') moves on between statements
Tick ==
  /\ now < MaxTime
  /\ now' = now + 1
  /\ last' = Stmt("Tick", 0, {}, "ok")
  /\ UNCHANGED <<repos, stars, embeddings, repo_ai, repo_fts, ai_tags, tag_seq,
                 repo_ai_tags, sync_jobs, console, delivered,
                    TERMS, response, frames>>

NextTouch ==
  \/ \E r \in RepoIds, fn \in Names, t \in TopicsInputs : InsertRepo(r, fn, NULL, t, NULL)
  \/ \E r \in RepoIds, cols \in TouchLists : \E v \in TouchInputs(cols) :
       UpdateRepo(r, cols, v)
  \/ Tick

SpecTouch == Init /\ [][NextTouch]_vars

-----------------------------------------------------------------------------
(* Search Mirror properties *)

NonNull(x) == IF x = NULL THEN {} ELSE {x}

\* what a consistent mirror has searchable under the rowid of repository r
MirrorMatches(r) ==
  /\ FtsRowExists(repo_fts, r)
  /\ Indexed(repo_fts, r, "full_name") = {repos[r].full_name}
  /\ Indexed(repo_fts, r, "description") = NonNull(repos[r].description)
  /\ Indexed(repo_fts, r, "topics") = NonNull(repos[r].topics_json)
  /\ Indexed(repo_fts, r, "ai_description") = NonNull(AiOf(repo_ai, r))

C2_AnnotationDeleteClears ==
  [][(last'.op = "DeleteAnnotation" /\ last'.id \in DOMAIN repo_ai
        /\ last'.id \in DOMAIN repos)
       => /\ last'.id \notin DOMAIN repo_ai'
          /\ FtsRowExists(repo_fts', last'.id)
          /\ Indexed(repo_fts', last'.id, "ai_description") = {}
          /\ \A c \in {"full_name", "description", "topics"} :
               Indexed(repo_fts', last'.id, c) = Indexed(repo_fts, last'.id, c)]_vars

\* C3: inserting or updating the annotation of a repository that has a mirror
\* entry succeeds, makes the new value the entry's annotation, and leaves one
\* mirror document under that rowid.
C3_AnnotationWriteOverwrites ==
  [][(/\ last'.op \in {"InsertAnnotation", "UpdateAnnotation"}
      /\ last'.id \in DOMAIN repos
      /\ FtsRowExists(repo_fts, last'.id)
      /\ (last'.op = "InsertAnnotation") = (last'.id \notin DOMAIN repo_ai))
       => /\ last'.res = "ok"
          /\ Indexed(repo_fts', last'.id, "ai_description")
               = {repo_ai'[last'.id].ai_description}
          /\ Len(repo_fts'[last'.id]) = 1]_vars

RowsOf(r) ==
  [star |-> StarsOf(stars, r) # {},
   emb |-> {e \in DOMAIN embeddings : embeddings[e].repo_id = r},
   ai |-> r \in DOMAIN repo_ai,
   fts |-> FtsRowExists(repo_fts, r),
   tags |-> {p \in DOMAIN repo_ai_tags : p[1] = r}]

NoRows == [star |-> FALSE, emb |-> {}, ai |-> FALSE, fts |-> FALSE, tags |-> {}]

\* C4: a DELETE of an existing repository removes it and, in the same step, its
\* rows of stars, embeddings, repo_ai, repo_fts and repo_ai_tags; no such row
\* ever refers to an id that is not in repos.
C4_DeleteCascades ==
  /\ [](\A r \in RepoIds \ DOMAIN repos : RowsOf(r) = NoRows)
  /\ [][\A r \in DOMAIN repos :
          (last'.op = "DeleteRepo" /\ last'.id = r)
            => (r \notin DOMAIN repos' /\ RowsOf(r)' = NoRows)]_vars

\* C8: an UPDATE of an existing repository that passes the JSON and the name
\* checks commits, makes the row's full name, description and topics the mirror
\* entry's, and leaves the entry's annotation and the rows of embeddings, stars
\* and repo_ai as they were.
C8_RepoUpdateMirrored ==
  [][(last'.op = "UpdateRepo" /\ last'.cols \cap MirroredCols # {}
        /\ last'.res \notin {"no_row", "abort_json", "constraint_unique"})
       => /\ last'.res = "ok"
          /\ Indexed(repo_fts', last'.id, "full_name") = {repos'[last'.id].full_name}
          /\ Indexed(repo_fts', last'.id, "description")
               = NonNull(repos'[last'.id].description)
          /\ Indexed(repo_fts', last'.id, "topics")
               = NonNull(repos'[last'.id].topics_json)
          /\ Indexed(repo_fts', last'.id, "ai_description")
               = Indexed(repo_fts, last'.id, "ai_description")
          /\ UNCHANGED <<embeddings, stars, repo_ai>>]_vars

EqualIgnoringCase(a, b) == Lower(a) = Lower(b)

\* C9: no two repositories have full names equal ignoring case, and an INSERT or
\* UPDATE that the unique index on lower(full_name) refuses changes no table.
C9_UniqueFullName ==
  /\ [](\A a, b \in DOMAIN repos :
          a # b => ~EqualIgnoringCase(repos[a].full_name, repos[b].full_name))
  /\ [][(last'.op \in {"InsertRepo", "UpdateRepo"} /\ last'.res = "constraint_unique")
         => UNCHANGED catalog]_vars

\* an INSERT under a new id was rejected by the unique index while a repository
\* with another id exists
C9_Witness ==
  /\ last.op = "InsertRepo" /\ last.res = "constraint_unique"
  /\ last.id \notin DOMAIN repos
  /\ DOMAIN repos # {}

-----------------------------------------------------------------------------
(* sync_jobs *)

Statuses == {"started", "completed", "error"}

\* CHECK (status IN ('started','completed','error'))
status_check(st) == st \in Statuses

\* (julianday(completed_at) - julianday(started_at)) * 86400.0, on whole seconds
DurationOf(completed, started) == completed - started

JobRow(st, s, c, d, n, e) ==
  [status |-> st, started_at |-> s, completed_at |-> c, duration_seconds |-> d,
   repos_processed |-> n, error |-> e]

\* INSERT INTO sync_jobs (id, status, completed_at): started_at, the counters,
\* duration_seconds and error take their defaults; no trigger is declared for
\* INSERT
InsertJobResult(j, st) ==
  IF ~status_check(st) THEN "constraint_check"
  ELSE IF j \in DOMAIN sync_jobs THEN "constraint_pk"
  ELSE "ok"

InsertJob(j, st, c) ==
  LET res == InsertJobResult(j, st)
  IN /\ last' = Stmt("InsertJob", j, {}, res)
     /\ IF res = "ok"
        THEN sync_jobs' = Put(sync_jobs, j, JobRow(st, now, c, NoValue, 0, NULL))
        ELSE UNCHANGED sync_jobs
     /\ UNCHANGED <<catalog, now, console, delivered,
                    TERMS, response, frames>>

JobCols == {"status", "started_at", "completed_at", "repos_processed", "error"}

\* variant: the trigger is declared AFTER UPDATE, without OF completed_at
tr_sync_jobs_duration_fires_any(cols, new) == new.completed_at # NoValue

\* tr_sync_jobs_duration: AFTER UPDATE OF completed_at WHEN NEW.completed_at IS NOT NULL
tr_sync_jobs_duration_fires(cols, new) ==
  "completed_at" \in cols /\ new.completed_at # NoValue

\* the trigger's UPDATE names duration_seconds only: it does not fire the trigger again
tr_sync_jobs_duration(new) ==
  [new EXCEPT !.duration_seconds = <<DurationOf(new.completed_at[1], new.started_at)>>]

\* UPDATE sync_jobs SET <cols> = <v> WHERE id = j
UpdateJobResult(j, cols, v) ==
  IF j \notin DOMAIN sync_jobs THEN "no_row"
  ELSE IF "status" \in cols /\ ~status_check(v.status) THEN "constraint_check"
  ELSE "ok"

UpdateJob(j, cols, v) ==
  LET res == UpdateJobResult(j, cols, v)
      new == UpdatedRow(sync_jobs[j], cols, v)
  IN /\ last' = Stmt("UpdateJob", j, cols, res)
     /\ IF res = "ok"
        THEN sync_jobs' = [sync_jobs EXCEPT ![j] =
                             IF tr_sync_jobs_duration_fires(cols, new)
                             THEN tr_sync_jobs_duration(new) ELSE new]
        ELSE UNCHANGED sync_jobs
     /\ UNCHANGED <<catalog, now, console, delivered,
                    TERMS, response, frames>>

StatusInputs == Statuses \cup {"running"}
CompletedInputs == {NoValue} \cup {<<t>> : t \in Times}

JobInputs ==
  [status : StatusInputs, started_at : Times, completed_at : CompletedInputs,
   repos_processed : {0, 1}, error : {NULL, "e"}]

DefaultJobInput ==
  [status |-> "started", started_at |-> 0, completed_at |-> NoValue,
   repos_processed |-> 0, error |-> NULL]

\* the SET lists the model issues: each column alone, and the closing update
CloseCols == {"status", "completed_at", "repos_processed", "error"}
JobSetLists == {{c} : c \in JobCols} \cup {CloseCols}

JobSetInputs(cols) ==
  {v \in JobInputs : \A c \in JobCols \ cols : v[c] = DefaultJobInput[c]}

NextJobs ==
  \/ \E j \in JobIds, st \in StatusInputs, c \in CompletedInputs : InsertJob(j, st, c)
  \/ \E j \in JobIds, cols \in JobSetLists : \E v \in JobSetInputs(cols) : UpdateJob(j, cols, v)
  \/ Tick

SpecJobs == Init /\ [][NextJobs]_vars

-----------------------------------------------------------------------------
(* embeddings *)

\* CHECK (source IN ('readme','desc','topics','about'))
Sources == {"readme", "desc", "topics", "about"}

\* variant: the column is declared without the CHECK
source_check_none(src) == TRUE

source_check(src) == src \in Sources

EmbRow(r, src, idx, h, at) ==
  [repo_id |-> r, source |-> src, chunk_idx |-> idx, text_hash |-> h, created_at |-> at]

\* idx_embeddings_repo_src_chunk: a row already holds (repo_id, source, chunk_idx)
ChunkTaken(emb, r, src, idx) ==
  \E e \in DOMAIN emb :
    emb[e].repo_id = r /\ emb[e].source = src /\ emb[e].chunk_idx = idx

\* the repo_id of embedding e, 0 when it is not stored
OwnerOf(emb, e) == IF e \in DOMAIN emb THEN emb[e].repo_id ELSE 0

\* INSERT INTO embeddings (id, repo_id, source, chunk_idx, text, dim, text_hash):
\* created_at takes its default
InsertEmbeddingResult(e, r, src, idx) ==
  IF ~source_check(src) THEN "constraint_check"
  ELSE IF e \in DOMAIN embeddings THEN "constraint_pk"
  ELSE IF ChunkTaken(embeddings, r, src, idx) THEN "constraint_unique"
  ELSE IF r \notin DOMAIN repos THEN "constraint_fk"
  ELSE "ok"

InsertEmbedding(e, r, src, idx, h) ==
  LET res == InsertEmbeddingResult(e, r, src, idx)
  IN /\ last' = Stmt("InsertEmbedding", r, {<<e, src, idx>>}, res)
     /\ IF res = "ok"
        THEN embeddings' = Put(embeddings, e, EmbRow(r, src, idx, h, now))
        ELSE UNCHANGED embeddings
     /\ UNCHANGED <<repos, stars, repo_ai, repo_fts, ai_tags, tag_seq, repo_ai_tags,
                    sync_jobs, now, console, delivered,
                    TERMS, response, frames>>

\* UPDATE embeddings SET text = ?, text_hash = h WHERE id = e
UpdateEmbedding(e, h) ==
  LET res == IF e \in DOMAIN embeddings THEN "ok" ELSE "no_row"
  IN /\ last' = Stmt("UpdateEmbedding", OwnerOf(embeddings, e), {"text", "text_hash"}, res)
     /\ IF res = "ok"
        THEN embeddings' = [embeddings EXCEPT ![e].text_hash = h]
        ELSE UNCHANGED embeddings
     /\ UNCHANGED <<repos, stars, repo_ai, repo_fts, ai_tags, tag_seq, repo_ai_tags,
                    sync_jobs, now, console, delivered,
                    TERMS, response, frames>>

\* UPDATE embeddings SET source = src, chunk_idx = idx WHERE id = e
MoveEmbedding(e, src, idx) ==
  LET res == IF e \notin DOMAIN embeddings THEN "no_row"
             ELSE IF ~source_check(src) THEN "constraint_check"
             ELSE IF ChunkTaken(Drop(embeddings, e), embeddings[e].repo_id, src, idx)
                  THEN "constraint_unique"
             ELSE "ok"
  IN /\ last' = Stmt("MoveEmbedding", OwnerOf(embeddings, e), {"source", "chunk_idx"}, res)
     /\ IF res = "ok"
        THEN embeddings' = [embeddings EXCEPT ![e].source = src, ![e].chunk_idx = idx]
        ELSE UNCHANGED embeddings
     /\ UNCHANGED <<repos, stars, repo_ai, repo_fts, ai_tags, tag_seq, repo_ai_tags,
                    sync_jobs, now, console, delivered,
                    TERMS, response, frames>>

\* DELETE FROM embeddings WHERE id = e
DeleteEmbedding(e) ==
  LET res == IF e \in DOMAIN embeddings THEN "ok" ELSE "no_row"
  IN /\ last' = Stmt("DeleteEmbedding", OwnerOf(embeddings, e), {}, res)
     /\ embeddings' = Drop(embeddings, e)
     /\ UNCHANGED <<repos, stars, repo_ai, repo_fts, ai_tags, tag_seq, repo_ai_tags,
                    sync_jobs, now, console, delivered,
                    TERMS, response, frames>>

-----------------------------------------------------------------------------
(* stars *)

StarRow(r, at) == [repo_id |-> r, starred_at |-> at]

\* variant: repo_id is declared without PRIMARY KEY
InsertStarResultNoKey(r) == IF r \notin DOMAIN repos THEN "constraint_fk" ELSE "ok"

\* INSERT INTO stars (repo_id, starred_at)
InsertStarResult(r) ==
  IF StarsOf(stars, r) # {} THEN "constraint_pk"
  ELSE IF r \notin DOMAIN repos THEN "constraint_fk"
  ELSE "ok"

InsertStar(r, at) ==
  LET res == InsertStarResult(r)
  IN /\ last' = Stmt("InsertStar", r, {}, res)
     /\ IF res = "ok" THEN stars' = stars \cup {StarRow(r, at)} ELSE UNCHANGED stars
     /\ UNCHANGED <<repos, embeddings, repo_ai, repo_fts, ai_tags, tag_seq,
                    repo_ai_tags, sync_jobs, now, console, delivered,
                    TERMS, response, frames>>

\* UPDATE stars SET starred_at = at WHERE repo_id = r
UpdateStar(r, at) ==
  LET res == IF StarsOf(stars, r) # {} THEN "ok" ELSE "no_row"
  IN /\ last' = Stmt("UpdateStar", r, {"starred_at"}, res)
     /\ stars' = (stars \ StarsOf(stars, r)) \cup {StarRow(r, at) : x \in StarsOf(stars, r)}
     /\ UNCHANGED <<repos, embeddings, repo_ai, repo_fts, ai_tags, tag_seq,
                    repo_ai_tags, sync_jobs, now, console, delivered,
                    TERMS, response, frames>>

\* DELETE FROM stars WHERE repo_id = r
DeleteStar(r) ==
  LET res == IF StarsOf(stars, r) # {} THEN "ok" ELSE "no_row"
  IN /\ last' = Stmt("DeleteStar", r, {}, res)
     /\ stars' = stars \ StarsOf(stars, r)
     /\ UNCHANGED <<repos, embeddings, repo_ai, repo_fts, ai_tags, tag_seq,
                    repo_ai_tags, sync_jobs, now, console, delivered,
                    TERMS, response, frames>>

\* upsert of the star of repository r: INSERT INTO stars (repo_id, starred_at)
\* ... ON CONFLICT (repo_id) DO UPDATE SET starred_at = excluded.starred_at
upsertStar(r, at) ==
  LET ins == InsertStarResult(r)
      res == IF ins = "constraint_pk" THEN "replaced" ELSE ins
  IN /\ last' = Stmt("upsertStar", r, {at}, res)
     /\ IF res = "ok" THEN stars' = stars \cup {StarRow(r, at)}
        ELSE IF res = "replaced"
        THEN stars' = (stars \ StarsOf(stars, r)) \cup {StarRow(r, at)}
        ELSE UNCHANGED stars
     /\ UNCHANGED <<repos, embeddings, repo_ai, repo_fts, ai_tags, tag_seq,
                    repo_ai_tags, sync_jobs, now, console, delivered,
                    TERMS, response, frames>>

-----------------------------------------------------------------------------
(* ai_tags and repo_ai_tags *)

\* variant: tag_name is declared UNIQUE without COLLATE NOCASE
TagNameTakenBinary(tags, name) == \E t \in DOMAIN tags : tags[t] = name

\* tag_name UNIQUE COLLATE NOCASE: NOCASE compares with the ASCII letters folded
TagNameTaken(tags, name) == \E t \in DOMAIN tags : Lower(tags[t]) = Lower(name)

\* INSERT INTO ai_tags (tag_name): AUTOINCREMENT hands out the id after the
\* largest one ever used
InsertTag(name) ==
  LET res == IF TagNameTaken(ai_tags, name) THEN "constraint_unique" ELSE "ok"
  IN /\ tag_seq < MaxTags
     /\ last' = Stmt("InsertTag", tag_seq + 1, {}, res)
     /\ IF res = "ok"
        THEN /\ ai_tags' = Put(ai_tags, tag_seq + 1, name)
             /\ tag_seq' = tag_seq + 1
        ELSE UNCHANGED <<ai_tags, tag_seq>>
     /\ UNCHANGED <<repos, stars, embeddings, repo_ai, repo_fts, repo_ai_tags,
                    sync_jobs, now, console, delivered,
                    TERMS, response, frames>>

\* UPDATE ai_tags SET tag_name = name WHERE id = t
UpdateTag(t, name) ==
  LET res == IF t \notin DOMAIN ai_tags THEN "no_row"
             ELSE IF TagNameTaken(Drop(ai_tags, t), name) THEN "constraint_unique"
             ELSE "ok"
  IN /\ last' = Stmt("UpdateTag", t, {"tag_name"}, res)
     /\ IF res = "ok"
        THEN ai_tags' = [ai_tags EXCEPT ![t] = name]
        ELSE UNCHANGED ai_tags
     /\ UNCHANGED <<repos, stars, embeddings, repo_ai, repo_fts, tag_seq, repo_ai_tags,
                    sync_jobs, now, console, delivered,
                    TERMS, response, frames>>

\* SELECT id FROM ai_tags WHERE tag_name = name: the comparison takes the
\* column's collation
TagIdOf(tags, name) == CHOOSE t \in DOMAIN tags : TagNameTaken(Put(<<>>, t, tags[t]), name)

\* ensureTag(name) -> tagId: get-or-create; the id of the tag the lookup finds,
\* else the id of the row it inserts
ensureTag(name) ==
  IF TagNameTaken(ai_tags, name)
  THEN /\ last' = Stmt("ensureTag", TagIdOf(ai_tags, name), {name}, "found")
       /\ UNCHANGED <<repos, stars, embeddings, repo_ai, repo_fts, ai_tags, tag_seq,
                      repo_ai_tags, sync_jobs, now, console, delivered,
                    TERMS, response, frames>>
  ELSE /\ tag_seq < MaxTags
       /\ last' = Stmt("ensureTag", tag_seq + 1, {name}, "created")
       /\ ai_tags' = Put(ai_tags, tag_seq + 1, name)
       /\ tag_seq' = tag_seq + 1
       /\ UNCHANGED <<repos, stars, embeddings, repo_ai, repo_fts, repo_ai_tags,
                      sync_jobs, now, console, delivered,
                    TERMS, response, frames>>

\* DELETE FROM ai_tags WHERE id = t: ON DELETE CASCADE removes the tag's rows of
\* repo_ai_tags
DeleteTag(t) ==
  LET res == IF t \in DOMAIN ai_tags THEN "ok" ELSE "no_row"
  IN /\ last' = Stmt("DeleteTag", t, {}, res)
     /\ ai_tags' = Drop(ai_tags, t)
     /\ repo_ai_tags' = [p \in {x \in DOMAIN repo_ai_tags : x[2] # t} |-> repo_ai_tags[p]]
     /\ UNCHANGED <<repos, stars, embeddings, repo_ai, repo_fts, tag_seq,
                    sync_jobs, now, console, delivered,
                    TERMS, response, frames>>

\* one more row <<r, t>> in the table
AddRow(tbl, r, t) ==
  IF <<r, t>> \in DOMAIN tbl THEN [tbl EXCEPT ![<<r, t>>] = @ + 1]
  ELSE Put(tbl, <<r, t>>, 1)

\* variant: the table is declared without PRIMARY KEY (repo_id, tag_id)
AttachTagResultNoKey(tbl, r, t) ==
  IF r \notin DOMAIN repos \/ t \notin DOMAIN ai_tags THEN "constraint_fk" ELSE "ok"

\* INSERT INTO repo_ai_tags (repo_id, tag_id)
AttachTagResult(tbl, r, t) ==
  IF <<r, t>> \in DOMAIN tbl THEN "constraint_pk"
  ELSE IF r \notin DOMAIN repos \/ t \notin DOMAIN ai_tags THEN "constraint_fk"
  ELSE "ok"

AttachTag(r, t) ==
  LET res == AttachTagResult(repo_ai_tags, r, t)
  IN /\ last' = Stmt("AttachTag", r, {t}, res)
     /\ IF res = "ok"
        THEN repo_ai_tags' = AddRow(repo_ai_tags, r, t)
        ELSE UNCHANGED repo_ai_tags
     /\ UNCHANGED <<repos, stars, embeddings, repo_ai, repo_fts, ai_tags, tag_seq,
                    sync_jobs, now, console, delivered,
                    TERMS, response, frames>>

\* INSERT OR IGNORE INTO repo_ai_tags (repo_id, tag_id) for each id of the list
RECURSIVE AttachAll(_, _, _)
AttachAll(tbl, r, ids) ==
  IF ids = <<>> THEN tbl
  ELSE AttachAll(IF AttachTagResult(tbl, r, Head(ids)) = "ok"
                 THEN AddRow(tbl, r, Head(ids)) ELSE tbl,
                 r, Tail(ids))

\* attachTags(repositoryId, tagIds[]): set-union of the repository's tags with
\* the list, all inserts in one transaction; a missing repository or tag fails
\* the foreign key and rolls the transaction back
attachTags(r, ids) ==
  LET res == IF r \notin DOMAIN repos \/ \E i \in DOMAIN ids : ids[i] \notin DOMAIN ai_tags
             THEN "constraint_fk" ELSE "ok"
  IN /\ last' = Stmt("attachTags", r, {ids}, res)
     /\ IF res = "ok"
        THEN repo_ai_tags' = AttachAll(repo_ai_tags, r, ids)
        ELSE UNCHANGED repo_ai_tags
     /\ UNCHANGED <<repos, stars, embeddings, repo_ai, repo_fts, ai_tags, tag_seq,
                    sync_jobs, now, console, delivered,
                    TERMS, response, frames>>

\* DELETE FROM repo_ai_tags WHERE repo_id = r AND tag_id = t
DetachTag(r, t) ==
  LET res == IF <<r, t>> \in DOMAIN repo_ai_tags THEN "ok" ELSE "no_row"
  IN /\ last' = Stmt("DetachTag", r, {}, res)
     /\ repo_ai_tags' = Drop(repo_ai_tags, <<r, t>>)
     /\ UNCHANGED <<repos, stars, embeddings, repo_ai, repo_fts, ai_tags, tag_seq,
                    sync_jobs, now, console, delivered,
                    TERMS, response, frames>>

-----------------------------------------------------------------------------
(* The queue consumer of the worker *)

\* variant: a consumer that embeds again the first chunk of every repository of
\* the batch, whatever is stored
QueueRewritesChunks(emb, messages, t) ==
  [e \in DOMAIN emb |->
     IF \E i \in DOMAIN messages : messages[i].repo_id = emb[e].repo_id
     THEN [emb[e] EXCEPT !.created_at = t] ELSE emb[e]]

\* what queue() leaves in the embeddings table: its loop body is one console.log
\* per message, it issues no statement
QueueEmbeddings(emb, messages, t) == emb

\* async queue(batch): for (const msg of batch.messages) console.log(...)
queue(messages) ==
  /\ Len(console) + Len(messages) <= MaxLog
  /\ console' = console \o messages
  /\ delivered' = messages
  /\ embeddings' = QueueEmbeddings(embeddings, messages, now)
  /\ last' = Stmt("queue", 0, {}, "ok")
  /\ UNCHANGED <<repos, stars, repo_ai, repo_fts, ai_tags, tag_seq, repo_ai_tags,
                 sync_jobs, now, TERMS, response, frames>>

\* msg.body: the repository to sync and the number of chunks its readme has now
Body(r, n) == [repo_id |-> r, readme_chunks |-> n]

\* batches that ask for the sync of repositories whose readme is one chunk
Batches == UNION {[1..n -> {Body(r, 1) : r \in RepoIds}] : n \in 1..MaxBatch}

\* the full name the source of record gives each repository
NameOfRepo(r) == IF r = 1 THEN <<97, 47, 98>> ELSE <<99, 47, 100>>

NextSync ==
  \/ \E r \in RepoIds : InsertRepo(r, NameOfRepo(r), NULL, NULL, NULL)
  \/ \E r \in RepoIds, src \in {"readme", "description"}, idx \in 0..MaxChunk, h \in Hashes :
       InsertEmbedding("e1", r, src, idx, h)
  \/ \E h \in Hashes : UpdateEmbedding("e1", h)
  \/ DeleteEmbedding("e1")
  \/ \E b \in Batches : queue(b)
  \/ Tick

SpecSync == Init /\ [][NextSync]_vars

-----------------------------------------------------------------------------
(* Specification of the chunks of one readme and its re-sync *)

\* batches that ask for the sync of repository 1 with a readme of n chunks
ShrinkBatches == {<<Body(1, n)>> : n \in 0..MaxChunk}

NextChunks ==
  \/ InsertRepo(1, NameOfRepo(1), NULL, NULL, NULL)
  \/ \E e \in EmbIds, idx \in 0..MaxChunk, h \in Hashes :
       InsertEmbedding(e, 1, "readme", idx, h)
  \/ \E e \in EmbIds : DeleteEmbedding(e)
  \/ \E b \in ShrinkBatches : queue(b)
  \/ Tick

SpecChunks == Init /\ [][NextChunks]_vars

-----------------------------------------------------------------------------
(* Specification of the embeddings table *)

\* source names a writer may try
SourceInputs == Sources \cup {"description"}

NextEmb ==
  \/ \E r \in RepoIds : InsertRepo(r, NameOfRepo(r), NULL, NULL, NULL)
  \/ \E e \in EmbIds, r \in RepoIds, src \in SourceInputs, idx \in 0..MaxChunk :
       InsertEmbedding(e, r, src, idx, "h1")
  \/ \E e \in EmbIds, src \in {"desc", "description"}, idx \in 0..MaxChunk :
       MoveEmbedding(e, src, idx)
  \/ \E e \in EmbIds : DeleteEmbedding(e)

SpecEmb == Init /\ [][NextEmb]_vars

-----------------------------------------------------------------------------
(* Specification of a repository with its dependent rows *)

TagIds == 1..MaxTags

NextDeps ==
  \/ \E r \in RepoIds : InsertRepo(r, NameOfRepo(r), NULL, NULL, NULL)
  \/ \E r \in RepoIds : DeleteRepo(r)
  \/ \E r \in RepoIds : InsertAnnotation(r, "s")
  \/ \E r \in RepoIds : InsertStar(r, "s1")
  \/ \E r \in RepoIds : UpdateStar(r, "s2")
  \/ \E r \in RepoIds : DeleteStar(r)
  \/ \E r \in RepoIds : InsertEmbedding("e1", r, "readme", 0, "h1")
  \/ DeleteEmbedding("e1")
  \/ InsertTag(<<103, 111>>)
  \/ \E t \in TagIds : DeleteTag(t)
  \/ \E r \in RepoIds, t \in TagIds : AttachTag(r, t)
  \/ \E r \in RepoIds, t \in TagIds : DetachTag(r, t)

SpecDeps == Init /\ [][NextDeps]_vars

-----------------------------------------------------------------------------
(* Specification of the tag catalog *)

\* the tagIds[] arguments of attachTags
TagLists == UNION {[1..n -> TagIds] : n \in 1..MaxTags}

NextTags ==
  \/ \E r \in RepoIds : InsertRepo(r, NameOfRepo(r), NULL, NULL, NULL)
  \/ \E name \in TagNames : InsertTag(name)
  \/ \E t \in TagIds, name \in TagNames : UpdateTag(t, name)
  \/ \E name \in TagNames : ensureTag(name)
  \/ \E t \in TagIds : DeleteTag(t)
  \/ \E r \in RepoIds, t \in TagIds : AttachTag(r, t)
  \/ \E r \in RepoIds, ids \in TagLists : attachTags(r, ids)
  \/ \E r \in RepoIds, t \in TagIds : DetachTag(r, t)

SpecTags == Init /\ [][NextTags]_vars

-----------------------------------------------------------------------------
(* Specification of the star ledger *)

NextStars ==
  \/ \E r \in RepoIds : InsertRepo(r, NameOfRepo(r), NULL, NULL, NULL)
  \/ \E r \in RepoIds : DeleteRepo(r)
  \/ \E r \in RepoIds, at \in StarTimes : InsertStar(r, at)
  \/ \E r \in RepoIds, at \in StarTimes : UpdateStar(r, at)
  \/ \E r \in RepoIds : DeleteStar(r)
  \/ \E r \in RepoIds, at \in StarTimes : upsertStar(r, at)

SpecStars == Init /\ [][NextStars]_vars

-----------------------------------------------------------------------------
(* Specification of two writers on disjoint repositories *)

\* the embedding id the writer of repository r uses: "${repo_id}:${source}:${chunk_idx}"
EmbIdOf(r) == IF r = 1 THEN "e1" ELSE "e2"

\* one statement of a writer that syncs repository r with its star, annotation
\* and embedding; SQLite runs the statements of the two writers one at a time, in
\* any order
Writer(r) ==
  \/ \E fn \in {NameOfRepo(r), <<97, 47, 98>>} : InsertRepo(r, fn, NULL, NULL, NULL)
  \/ UpdateRepo(r, {"language"}, DefaultInput)
  \/ UpdateRepo(r, {"full_name"}, [DefaultInput EXCEPT !.full_name = <<65, 47, 66>>])
  \/ DeleteRepo(r)
  \/ InsertAnnotation(r, "s")
  \/ UpdateAnnotation(r, "t")
  \/ DeleteAnnotation(r)
  \/ InsertStar(r, "s1")
  \/ UpdateStar(r, "s1")
  \/ InsertEmbedding(EmbIdOf(r), r, "readme", 0, "h1")
  \/ UpdateEmbedding(EmbIdOf(r), "h1")
  \/ DeleteEmbedding(EmbIdOf(r))

\* one statement of a writer that syncs repository r and its star only
StarWriter(r) ==
  \/ \E fn \in {NameOfRepo(r), <<97, 47, 98>>} : InsertRepo(r, fn, NULL, NULL, NULL)
  \/ UpdateRepo(r, {"language"}, DefaultInput)
  \/ InsertStar(r, "s1")

NextWriters ==
  \/ Writer(1)
  \/ StarWriter(2)
  \/ Tick

SpecWriters == Init /\ [][NextWriters]_vars

-----------------------------------------------------------------------------
(* The /search route of the worker *)

\* texts are sequences of characters
Chars == {"h", "o"}
Texts == UNION {[1..n -> Chars] : n \in 0..MaxQuery}

\* the query parameters of a request: none, or q
Requests == {<<>>} \cup {[q |-> t] : t \in Texts}

\* query: z.object({ q: z.string().min(1) })
query_valid(req) == "q" \in DOMAIN req /\ Len(req.q) >= 1

\* "stub result for "
StubPrefix ==
  <<"s", "t", "u", "b", " ", "r", "e", "s", "u", "l", "t", " ", "f", "o", "r", " ">>

\* variant: the handler answers with a fixed text
StubResultsFixed(q) == <<StubPrefix>>

\* { results: [`stub result for ${q}`] }
StubResults(q) == <<StubPrefix \o q>>

\* what the handler leaves in TERMS: it does not use c.env
TermsAfterSearch(kv, q) == kv

\* GET /search: app.openapi(searchRoute, handler); a request that fails the
\* validation of the route is answered with 400 and does not reach the handler
search(req) ==
  /\ last' = Stmt("search", 0, {req}, "ok")
  /\ IF query_valid(req)
     THEN /\ response' = [status |-> 200, results |-> StubResults(req.q)]
          /\ TERMS' = TermsAfterSearch(TERMS, req.q)
     ELSE /\ response' = [status |-> 400, results |-> <<>>]
          /\ UNCHANGED TERMS
  /\ UNCHANGED <<repos, stars, embeddings, repo_ai, repo_fts, ai_tags, tag_seq,
                 repo_ai_tags, sync_jobs, now, console, delivered, frames>>

NextWorker ==
  \/ \E req \in Requests : search(req)
  \/ \E b \in Batches : queue(b)

SpecWorker == Init /\ [][NextWorker]_vars

-----------------------------------------------------------------------------
(* One UPDATE, trigger program by trigger program *)

\* variant: PRAGMA recursive_triggers = ON
recursive_triggers_on == TRUE

\* PRAGMA recursive_triggers: the migration sets foreign_keys only, so the
\* setting keeps its default
recursive_triggers == FALSE

\* the AFTER UPDATE triggers of repos an UPDATE with this SET list fires per row
RepoTriggers(cols) ==
  {"tr_repos_touch_last_synced"}
    \cup (IF tr_repos_to_fts_upd_fires(cols) THEN {"tr_repos_to_fts_upd"} ELSE {})

\* the AFTER UPDATE triggers of sync_jobs an UPDATE with this SET list fires
JobTriggers(cols, new) ==
  IF tr_sync_jobs_duration_fires(cols, new) THEN {"tr_sync_jobs_duration"} ELSE {}

\* a program of the running statement: the statement itself (outermost, holding
\* the tables to roll back to) or a trigger program; pending are the triggers its
\* UPDATE has fired that have not run yet
Frame(prog, id, cols, pending, ran, saved) ==
  [prog |-> prog, id |-> id, cols |-> cols, pending |-> pending, ran |-> ran,
   saved |-> saved]

TopFrame == frames[Len(frames)]

\* a failing program undoes the whole statement
Rollback(res) ==
  /\ frames' = <<>>
  /\ repos' = frames[1].saved[1]
  /\ sync_jobs' = frames[1].saved[2]
  /\ last' = Stmt(frames[1].prog, frames[1].id, frames[1].cols, res)

\* UPDATE repos SET <cols> = <v> WHERE id = r: the BEFORE trigger and the
\* constraints are checked, the row is written and its AFTER triggers are fired
BeginUpdateRepo(r, cols, v) ==
  LET res == UpdateRepoResult(r, cols, v)
  IN /\ frames = <<>>
     /\ IF res \in {"no_row", "abort_json", "constraint_unique"}
        THEN /\ last' = Stmt("UPDATE repos", r, cols, res)
             /\ UNCHANGED <<repos, frames>>
        ELSE /\ repos' = [repos EXCEPT ![r] = UpdatedRow(@, cols, v)]
             /\ frames' = <<Frame("UPDATE repos", r, cols, RepoTriggers(cols), TRUE,
                                  <<repos, sync_jobs>>)>>
             /\ last' = Stmt("UPDATE repos", r, cols, "running")
     /\ UNCHANGED <<stars, embeddings, repo_ai, repo_fts, ai_tags, tag_seq,
                    repo_ai_tags, sync_jobs, now, console, delivered, TERMS, response>>

\* UPDATE sync_jobs SET <cols> = <v> WHERE id = j
BeginUpdateJob(j, cols, v) ==
  LET res == UpdateJobResult(j, cols, v)
  IN /\ frames = <<>>
     /\ IF res # "ok"
        THEN /\ last' = Stmt("UPDATE sync_jobs", j, cols, res)
             /\ UNCHANGED <<sync_jobs, frames>>
        ELSE /\ sync_jobs' = [sync_jobs EXCEPT ![j] = UpdatedRow(@, cols, v)]
             /\ frames' = <<Frame("UPDATE sync_jobs", j, cols,
                                  JobTriggers(cols, UpdatedRow(sync_jobs[j], cols, v)),
                                  TRUE, <<repos, sync_jobs>>)>>
             /\ last' = Stmt("UPDATE sync_jobs", j, cols, "running")
     /\ UNCHANGED <<catalog, now, console, delivered, TERMS, response>>

\* the next fired trigger starts its program, in no documented order; with
\* recursive_triggers off a trigger whose program is already running is
\* skipped, and a program nested deeper than the limit fails the statement
FireTrigger ==
  /\ frames # <<>>
  /\ TopFrame.ran
  /\ \E T \in TopFrame.pending :
       LET rest == [frames EXCEPT ![Len(frames)].pending = @ \ {T}]
       IN IF ~recursive_triggers /\ \E i \in DOMAIN frames : frames[i].prog = T
          THEN /\ frames' = rest
               /\ UNCHANGED <<repos, sync_jobs, last>>
          ELSE IF Len(frames) > MaxTriggerDepth
          THEN Rollback("error_depth")
          ELSE /\ frames' = Append(rest, Frame(T, TopFrame.id, {}, {}, FALSE, <<>>))
               /\ UNCHANGED <<repos, sync_jobs, last>>
  /\ UNCHANGED <<stars, embeddings, repo_ai, repo_fts, ai_tags, tag_seq,
                 repo_ai_tags, now, console, delivered, TERMS, response>>

\* the body of the trigger program on top: its one UPDATE, which fires the
\* triggers of the table it writes
RunTrigger ==
  /\ frames # <<>>
  /\ ~TopFrame.ran
  /\ LET n == Len(frames)
         id == TopFrame.id
         done(pending) == [frames EXCEPT ![n].ran = TRUE, ![n].pending = pending]
     IN CASE TopFrame.prog = "tr_repos_touch_last_synced" ->
               /\ repos' = tr_repos_touch_rows(repos, id, now)
               /\ frames' = done(RepoTriggers({"last_synced_at"}))
               /\ UNCHANGED <<sync_jobs, last>>
          [] TopFrame.prog = "tr_repos_to_fts_upd" ->
               IF tr_repos_to_fts_upd_fails(repo_fts, id)
               THEN Rollback("error_fts")
               ELSE /\ frames' = done({})
                    /\ UNCHANGED <<repos, sync_jobs, last>>
          [] TopFrame.prog = "tr_sync_jobs_duration" ->
               LET new == tr_sync_jobs_duration(sync_jobs[id])
               IN /\ sync_jobs' = [sync_jobs EXCEPT ![id] = new]
                  /\ frames' = done(JobTriggers({"duration_seconds"}, new))
                  /\ UNCHANGED <<repos, last>>
  /\ UNCHANGED <<stars, embeddings, repo_ai, repo_fts, ai_tags, tag_seq,
                 repo_ai_tags, now, console, delivered, TERMS, response>>

\* a program with nothing left to fire returns; the statement commits when the
\* outermost one does
ReturnFrame ==
  /\ frames # <<>>
  /\ TopFrame.ran
  /\ TopFrame.pending = {}
  /\ frames' = SubSeq(frames, 1, Len(frames) - 1)
  /\ IF Len(frames) = 1
     THEN last' = Stmt(TopFrame.prog, TopFrame.id, TopFrame.cols, "ok")
     ELSE UNCHANGED last
  /\ UNCHANGED <<catalog, sync_jobs, now, console, delivered, TERMS, response>>

\* the SET lists of this specification
RepoStepLists == {{"language"}, {"description"}}
JobStepLists == {{"error"}, {"completed_at"}}

NextTriggers ==
  \/ \E r \in RepoIds : frames = <<>> /\ InsertRepo(r, NameOfRepo(r), NULL, NULL, NULL)
  \/ \E j \in JobIds : frames = <<>> /\ InsertJob(j, "started", NoValue)
  \/ \E r \in RepoIds, cols \in RepoStepLists : BeginUpdateRepo(r, cols, DefaultInput)
  \/ \E j \in JobIds, cols \in JobStepLists : \E v \in JobSetInputs(cols) :
       BeginUpdateJob(j, cols, v)
  \/ FireTrigger
  \/ RunTrigger
  \/ ReturnFrame
  \/ frames = <<>> /\ Tick

\* the statement in progress is run to its end
SpecTriggers ==
  Init /\ [][NextTriggers]_vars /\ WF_vars(FireTrigger \/ RunTrigger \/ ReturnFrame)

-----------------------------------------------------------------------------
(* Sync Job properties *)

\* C5: a job is created with status started, a started job moves only to completed
\* or error (or stays), and a completed or error job keeps its status.
C5_StatusLifecycle ==
  [][\A j \in DOMAIN sync_jobs' :
       IF j \in DOMAIN sync_jobs
       THEN sync_jobs[j].status # "started" => sync_jobs'[j].status = sync_jobs[j].status
       ELSE sync_jobs'[j].status = "started"]_vars

\* C6: a job with a completion time has duration_seconds = completed_at -
\* started_at, and a job in status started has no duration.
C6_DurationDerived ==
  \A j \in DOMAIN sync_jobs :
    /\ sync_jobs[j].completed_at # NoValue
         => sync_jobs[j].duration_seconds
              = <<DurationOf(sync_jobs[j].completed_at[1], sync_jobs[j].started_at)>>
    /\ sync_jobs[j].status = "started" => sync_jobs[j].duration_seconds = NoValue

-----------------------------------------------------------------------------
(* Re-sync properties *)

\* C10: handling a batch equal to the batch handled before it adds no row to
\* embeddings, rewrites none and leaves every created_at as it was.
C10_ResyncWritesNoEmbedding ==
  [][(last'.op = "queue" /\ delivered' = delivered) => embeddings' = embeddings]_vars

\* the same batch was handled twice in a row, after an embedding of one of its
\* repositories was stored at an earlier time
C10_Witness ==
  /\ last.op = "queue"
  /\ console = delivered \o delivered
  /\ \E e \in DOMAIN embeddings :
       /\ embeddings[e].created_at < now
       /\ \E i \in DOMAIN delivered : delivered[i].repo_id = embeddings[e].repo_id

\* the stored chunks of the readme of repository r
ReadmeRows(emb, r) ==
  {e \in DOMAIN emb : emb[e].repo_id = r /\ emb[e].source = "readme"}

\* C11: when the consumer handles a message giving the readme of a repository M
\* chunks while N > M are stored, afterwards no stored chunk of that readme has an
\* index >= M, and the stored chunks with an index < M are as they were.
C11_ShrinkRemovesOrphans ==
  [][last'.op = "queue"
       => \A i \in DOMAIN delivered' :
            LET r == delivered'[i].repo_id
                M == delivered'[i].readme_chunks
            IN M < Cardinality(ReadmeRows(embeddings, r))
                 => /\ \A e \in ReadmeRows(embeddings', r) : embeddings'[e].chunk_idx < M
                    /\ \A e \in ReadmeRows(embeddings, r) :
                         embeddings[e].chunk_idx < M
                           => (e \in DOMAIN embeddings' /\ embeddings'[e] = embeddings[e])]_vars

-----------------------------------------------------------------------------
(* Repository properties *)

\* C12: no repository holds a topics_json that is neither NULL nor valid JSON,
\* and an INSERT or UPDATE that the JSON triggers refuse leaves every table, with
\* the row, its last_synced_at and its mirror entry, as it was.
C12_InvalidTopicsRejected ==
  /\ [](\A r \in DOMAIN repos :
          repos[r].topics_json = NULL \/ json_valid(repos[r].topics_json) = 1)
  /\ [][(last'.op \in {"InsertRepo", "UpdateRepo"} /\ last'.res = "abort_json")
         => UNCHANGED catalog]_vars

\* an UPDATE of the topics of a stored repository was refused at a later time
\* than the row's last synchronisation
C12_Witness ==
  /\ last.op = "UpdateRepo" /\ last.res = "abort_json"
  /\ last.id \in DOMAIN repos
  /\ repos[last.id].last_synced_at < now

\* C13: every UPDATE of a repository that commits leaves the row's
\* last_synced_at at the time of the update.
C13_UpdateTouchesLastSynced ==
  [][(last'.op = "UpdateRepo" /\ last'.res = "ok")
       => repos'[last'.id].last_synced_at = now']_vars

\* an UPDATE that changed no column value committed later than the row's insert
C13_Witness ==
  /\ last.op = "UpdateRepo" /\ last.res = "ok"
  /\ last.id \in DOMAIN repos
  /\ repos[last.id].language = NULL
  /\ repos[last.id].last_synced_at = now
  /\ now > 0

-----------------------------------------------------------------------------
(* Tag catalog properties *)

\* C14: no two tags have names equal ignoring case, and ensureTag on a name
\* that equals a stored tag's name ignoring case returns that tag's id and leaves
\* ai_tags as it was.
C14_TagNamesUnique ==
  /\ [](\A a, b \in DOMAIN ai_tags :
          a # b => ~EqualIgnoringCase(ai_tags[a], ai_tags[b]))
  /\ [][\A t \in DOMAIN ai_tags, name \in TagNames :
          (last'.op = "ensureTag" /\ last'.cols = {name}
             /\ EqualIgnoringCase(ai_tags[t], name))
            => (last'.id = t /\ ai_tags' = ai_tags)]_vars

\* ensureTag found a tag stored under another spelling of the name
C14_Witness ==
  /\ last.op = "ensureTag" /\ last.res = "found"
  /\ last.id \in DOMAIN ai_tags
  /\ last.cols # {ai_tags[last.id]}

\* C15: repo_ai_tags holds at most one row per (repository, tag); an INSERT of
\* a pair that is stored, and attachTags with a list of tags that are all
\* attached, leave repo_ai_tags as it was; attachTags that succeeds leaves every
\* tag of its list attached.
C15_AttachIdempotent ==
  /\ [](\A p \in DOMAIN repo_ai_tags : repo_ai_tags[p] = 1)
  /\ [][\A t \in TagIds :
          (last'.op = "AttachTag" /\ last'.cols = {t}
             /\ <<last'.id, t>> \in DOMAIN repo_ai_tags)
            => repo_ai_tags' = repo_ai_tags]_vars
  /\ [][last'.op = "attachTags"
         => LET ids == CHOOSE x \in last'.cols : TRUE
            IN /\ (\A i \in DOMAIN ids : <<last'.id, ids[i]>> \in DOMAIN repo_ai_tags)
                    => repo_ai_tags' = repo_ai_tags
               /\ last'.res = "ok"
                    => \A i \in DOMAIN ids : <<last'.id, ids[i]>> \in DOMAIN repo_ai_tags']_vars

\* attachTags committed a list that names the same tag twice
C15_Witness ==
  /\ last.op = "attachTags" /\ last.res = "ok"
  /\ \E ids \in TagLists :
       /\ last.cols = {ids}
       /\ Len(ids) = 2 /\ ids[1] = ids[2]
       /\ <<last.id, ids[1]>> \in DOMAIN repo_ai_tags

-----------------------------------------------------------------------------
(* Embedding properties *)

\* the INSERT of embedding e for (r, src, idx) meets no constraint other than the
\* CHECK on source
Insertable(e, r, src, idx) ==
  /\ e \notin DOMAIN embeddings
  /\ r \in DOMAIN repos
  /\ ~\E x \in DOMAIN embeddings :
        /\ embeddings[x].repo_id = r
        /\ embeddings[x].source = src
        /\ embeddings[x].chunk_idx = idx

\* every embedding has a source in names
SourcesWithin(names) == \A e \in DOMAIN embeddings : embeddings[e].source \in names

\* no two embeddings share (repo_id, source, chunk_idx)
ChunkKeysDistinct ==
  \A a, b \in DOMAIN embeddings :
    a # b => \/ embeddings[a].repo_id # embeddings[b].repo_id
             \/ embeddings[a].source # embeddings[b].source
             \/ embeddings[a].chunk_idx # embeddings[b].chunk_idx

\* an INSERT with a source in names that meets the other constraints commits
InsertAccepted(names) ==
  last'.op = "InsertEmbedding"
    => LET a == CHOOSE x \in last'.cols : TRUE
       IN (a[2] \in names /\ Insertable(a[1], last'.id, a[2], a[3]))
            => (last'.res = "ok" /\ a[1] \in DOMAIN embeddings')

\* C16 as stated: the source names are readme, description, topics and about.
C16_SourcesAsStated ==
  /\ []SourcesWithin({"readme", "description", "topics", "about"})
  /\ []ChunkKeysDistinct
  /\ [][InsertAccepted({"readme", "description", "topics", "about"})]_vars

\* C16 amended: every embedding has a source in {readme, desc, topics, about}, an
\* INSERT with any of these four names that meets the other constraints commits,
\* and no two embeddings share (repo_id, source, chunk_idx).
C16_SourcesOfSchema ==
  /\ []SourcesWithin({"readme", "desc", "topics", "about"})
  /\ []ChunkKeysDistinct
  /\ [][InsertAccepted({"readme", "desc", "topics", "about"})]_vars

\* an INSERT just stored a second 'desc' chunk of a repository
C16_Witness ==
  /\ last.op = "InsertEmbedding" /\ last.res = "ok"
  /\ DOMAIN embeddings = EmbIds
  /\ \A e \in EmbIds : embeddings[e].source = "desc" /\ embeddings[e].repo_id = last.id

-----------------------------------------------------------------------------
(* Properties of writers on disjoint repositories *)

\* the rows of repos, stars, embeddings, repo_ai and repo_fts that belong to
\* repository r
RepoView(r) ==
  [repo |-> IF r \in DOMAIN repos THEN <<repos[r]>> ELSE <<>>,
   star |-> StarsOf(stars, r),
   emb |-> [e \in {x \in DOMAIN embeddings : embeddings[x].repo_id = r} |-> embeddings[e]],
   ai |-> IF r \in DOMAIN repo_ai THEN <<repo_ai[r]>> ELSE <<>>,
   fts |-> repo_fts[r]]

-----------------------------------------------------------------------------
(* Properties of the /search route *)

\* the query of the request that was answered last
LastQuery(l) == (CHOOSE req \in l.cols : TRUE).q

\* text t occurs in text s
Contains(s, t) == \E i \in 0..(Len(s) - Len(t)) : SubSeq(s, i + 1, i + Len(t)) = t

\* C18: once GET /search with a query q was answered, TERMS holds a non-empty
\* value under the key q.
C18_SearchCachedInTerms ==
  [][(last'.op = "search" /\ response'.status = 200)
       => /\ LastQuery(last') \in DOMAIN TERMS'
          /\ TERMS'[LastQuery(last')] # <<>>]_vars

\* C19: a GET /search with a non-empty q is answered with status 200 and a
\* results list whose first element contains q.
C19_SearchAnswersWithQuery ==
  [][\A t \in Texts \ {<<>>} :
       (last'.op = "search" /\ last'.cols = {[q |-> t]})
         => /\ response'.status = 200
            /\ response'.results # <<>>
            /\ Contains(response'.results[1], t)]_vars

\* a query of MaxQuery characters that do not all occur in the stub text was
\* answered
C19_Witness ==
  /\ last.op = "search"
  /\ response.status = 200
  /\ Len(LastQuery(last)) = MaxQuery
  /\ ~Contains(StubPrefix, LastQuery(last))
  /\ Contains(response.results[1], LastQuery(last))

-----------------------------------------------------------------------------
(* Star ledger properties *)

\* C20: no repository has more than one row of stars, and an upsert of the star
\* of a repository that has one leaves it one row, holding the new starred_at.
C20_OneStarPerRepo ==
  /\ [](\A r \in RepoIds : Cardinality(StarsOf(stars, r)) <= 1)
  /\ [][(last'.op = "upsertStar" /\ StarsOf(stars, last'.id) # {})
         => StarsOf(stars', last'.id)
              = {StarRow(last'.id, CHOOSE at \in last'.cols : TRUE)}]_vars

\* an upsert replaced the starred_at of a repository's star
C20_Witness ==
  /\ last.op = "upsertStar" /\ last.res = "replaced"
  /\ StarsOf(stars, last.id) = {StarRow(last.id, "s2")}

-----------------------------------------------------------------------------
(* Cascades of the join table *)

TagRowsOfTag(tbl, t) == {p \in DOMAIN tbl : p[2] = t}
TagRowsOfRepo(tbl, r) == {p \in DOMAIN tbl : p[1] = r}

\* a DELETE of an existing tag removes the rows of repo_ai_tags that hold its id,
\* keeps the others, and writes no other table
TagDeleteFrame ==
  (last'.op = "DeleteTag" /\ last'.id \in DOMAIN ai_tags)
    => /\ last'.id \notin DOMAIN ai_tags'
       /\ repo_ai_tags' = [p \in DOMAIN repo_ai_tags \ TagRowsOfTag(repo_ai_tags, last'.id)
                             |-> repo_ai_tags[p]]
       /\ UNCHANGED <<repos, stars, embeddings, repo_ai, repo_fts>>

\* a DELETE of an existing repository removes its rows of repo_ai_tags and keeps
\* every tag
RepoDeleteDropsTags ==
  (last'.op = "DeleteRepo" /\ last'.id \in DOMAIN repos)
    => /\ TagRowsOfRepo(repo_ai_tags', last'.id) = {}
       /\ ai_tags' = ai_tags

\* C21: deleting a tag removes exactly the rows of repo_ai_tags that refer to it
\* and leaves repositories, their dependent rows and the mirror unchanged;
\* deleting a repository removes its rows of repo_ai_tags and leaves every tag.
C21_JoinTableCascades ==
  /\ [][TagDeleteFrame]_vars
  /\ [][RepoDeleteDropsTags]_vars

-----------------------------------------------------------------------------
(* Trigger chain properties *)

NoTriggerTwice == \A i, j \in DOMAIN frames : i # j => frames[i].prog # frames[j].prog

\* C22: every UPDATE of repos or sync_jobs comes to an end, and while it runs no
\* trigger program is nested in itself: the statement nests one trigger program
\* at most and never runs into the limit of nested programs.
C22_UpdatesTerminate ==
  /\ [](NoTriggerTwice /\ Len(frames) <= 2)
  /\ [](last.res # "error_depth")
  /\ (frames # <<>>) ~> (frames = <<>>)

\* the touch trigger has run its UPDATE of repos and the trigger that UPDATE
\* fired, the touch trigger itself, has been passed over
C22_Witness ==
  /\ Len(frames) = 2
  /\ frames[2].prog = "tr_repos_touch_last_synced"
  /\ frames[2].ran
  /\ frames[2].pending = {}
  /\ repos[frames[2].id].last_synced_at = now
  /\ now > 0

-----------------------------------------------------------------------------
(* Mirror ownership *)

====
